---- MODULE Spec2Model ----
(***************************************************************************)
(* Model of the context-optimisation pipeline of double-context:           *)
(* semantic deduplication, prioritisation and token-budget trimming of     *)
(* context chunks (optimizePrompt) and chat messages (optimizeChatHistory).*)
(*                                                                         *)
(* A text is a sequence of one-character strings.  Similarities and scores *)
(* are exact fixed-point integers: the embedding vectors used have integer *)
(* norms, so every cosine similarity is a multiple of 1/SimScale.          *)
(***************************************************************************)
EXTENDS Integers, Sequences, FiniteSets, TLC

\* ------------------------------------------------------------------ bounds

\* Longest of the enumerated context lists and message lists (one longer
\* conversation is given to optimizeChatHistory by name).
MaxLen == 3

\* ------------------------------------------------------------- text values

SP == " "
NL == "\n"

\* String.prototype.toLowerCase on one character of the alphabet in use.
LowerChar(c) == IF c = "A" THEN "a" ELSE IF c = "B" THEN "b" ELSE c

RECURSIVE ToLower(_)
ToLower(s) == IF s = <<>> THEN <<>> ELSE <<LowerChar(Head(s))>> \o ToLower(Tail(s))

RECURSIVE TrimLeft(_)
TrimLeft(s) == IF s # <<>> /\ Head(s) \in {SP, NL} THEN TrimLeft(Tail(s)) ELSE s

RECURSIVE TrimRight(_)
TrimRight(s) ==
  IF s # <<>> /\ s[Len(s)] \in {SP, NL} THEN TrimRight(SubSeq(s, 1, Len(s) - 1)) ELSE s

\* String.prototype.trim
Trim(s) == TrimRight(TrimLeft(s))

\* Array.prototype.join: the texts of list separated by sep.
RECURSIVE Join(_, _)
Join(list, sep) ==
  IF list = <<>> THEN <<>>
  ELSE IF Len(list) = 1 THEN list[1]
  ELSE list[1] \o sep \o Join(Tail(list), sep)

\* The chunk texts callers pass: two that differ only by case and a trailing
\* blank, a longer one and another short one.
TextA == <<"a">>
TextA2 == <<"A", SP>>
TextB == <<"b", "b", "b", "b", "b">>
TextC == <<"c">>
Texts == {TextA, TextA2, TextB, TextC}

\* ---------------------------------------------------------------- tokenizer

avgCharsPerToken == 4

CeilDiv(n, d) == (n + d - 1) \div d

\* Math.ceil(approxTokens * 1.1).  In double arithmetic this equals the exact
\* ceiling of 11n/10 for every n < 50 (texts of fewer than 197 characters),
\* which covers every text of the model.
CeilTimes1_1(n) == CeilDiv(11 * n, 10)

countTokens(text) ==
  IF text = <<>> THEN 0
  ELSE CeilTimes1_1(CeilDiv(Len(text), avgCharsPerToken))

\* --------------------------------------------------------------- embeddings

\* Fixed-point unit of a similarity: cosineSimilarity returns thousandths.
SimScale == 1000

\* Embedding vectors the provider may answer with.  Their norms are the
\* integers 1 and 5, so the similarities are 0.6, 0.8, 0.96 and 1 exactly.
Vectors == {<<1, 0>>, <<4, 3>>, <<3, 4>>}

RECURSIVE Dot(_, _)
Dot(a, b) == IF a = <<>> THEN 0 ELSE Head(a) * Head(b) + Dot(Tail(a), Tail(b))

\* Math.sqrt, exact on the perfect squares the vectors above produce.
Sqrt(n) == CHOOSE r \in 0..n : r * r <= n /\ (r + 1) * (r + 1) > n

\* Result of cosineSimilarity when the vectors differ in length (it throws).
SimError == -2 * SimScale

cosineSimilarity(a, b) ==
  IF Len(a) # Len(b) THEN SimError
  ELSE LET dotProduct == Dot(a, b)
           normA == Sqrt(Dot(a, a))
           normB == Sqrt(Dot(b, b))
       IN IF normA = 0 \/ normB = 0 THEN 0
          ELSE (dotProduct * SimScale) \div (normA * normB)

\* The request getOpenAIEmbeddings sends: every text trimmed.
EmbeddingInput(texts) == [i \in 1..Len(texts) |-> Trim(texts[i])]

\* The provider's answer: one vector per text, in order; e is the provider's
\* (deterministic) embedding of each trimmed text.
getEmbeddings(e, texts) == [i \in 1..Len(texts) |-> e[Trim(texts[i])]]

\* ------------------------------------------------------------ deduplication

\* Default semanticThreshold (0.9) of deduplicate and deduplicateMessages.
semanticThreshold == 900

\* The inner loop of the scan: is the current embedding within the threshold
\* of an embedding already kept?
isDuplicate(currentEmbedding, processedEmbeddings, threshold) ==
  \E j \in 1..Len(processedEmbeddings) :
    cosineSimilarity(currentEmbedding, processedEmbeddings[j]) >= threshold

\* The greedy scan shared by deduplicate and deduplicateMessages: the indices
\* of the items kept, walking embeddings from index i with kept already kept.
RECURSIVE GreedyScan(_, _, _, _)
GreedyScan(embeddings, threshold, i, kept) ==
  IF i > Len(embeddings) THEN kept
  ELSE LET processedEmbeddings == [j \in 1..Len(kept) |-> embeddings[kept[j]]]
       IN IF isDuplicate(embeddings[i], processedEmbeddings, threshold)
          THEN GreedyScan(embeddings, threshold, i + 1, kept)
          ELSE GreedyScan(embeddings, threshold, i + 1, Append(kept, i))

\* The inner loop as the code runs it, pair by pair: it ends with "throws" at
\* the first processed embedding whose length differs (cosineSimilarity
\* throws), with "duplicate" at the first one within the threshold (break),
\* and with "unique" when neither happens.
RECURSIVE innerLoop(_, _, _, _)
innerLoop(currentEmbedding, processedEmbeddings, threshold, j) ==
  IF j > Len(processedEmbeddings) THEN "unique"
  ELSE IF Len(currentEmbedding) # Len(processedEmbeddings[j]) THEN "throws"
  ELSE IF cosineSimilarity(currentEmbedding, processedEmbeddings[j]) >= threshold
       THEN "duplicate"
  ELSE innerLoop(currentEmbedding, processedEmbeddings, threshold, j + 1)

\* Does the scan, walking embeddings from index i with kept already kept,
\* end in the exception of cosineSimilarity?
RECURSIVE scanThrows(_, _, _, _)
scanThrows(embeddings, threshold, i, kept) ==
  IF i > Len(embeddings) THEN FALSE
  ELSE LET processedEmbeddings == [j \in 1..Len(kept) |-> embeddings[kept[j]]]
           end == innerLoop(embeddings[i], processedEmbeddings, threshold, 1)
       IN IF end = "throws" THEN TRUE
          ELSE IF end = "duplicate" THEN scanThrows(embeddings, threshold, i + 1, kept)
          ELSE scanThrows(embeddings, threshold, i + 1, Append(kept, i))

\* The scan with its loop started one item late.
semanticUniqueFromSecond(items, embeddings, threshold) ==
  LET kept == GreedyScan(embeddings, threshold, 2, <<>>)
  IN [j \in 1..Len(kept) |-> items[kept[j]]]

semanticUnique(items, embeddings, threshold) ==
  LET kept == GreedyScan(embeddings, threshold, 1, <<>>)
  IN [j \in 1..Len(kept) |-> items[kept[j]]]

\* Phase 1 of deduplicate: the first chunk of every trim().toLowerCase() class.
RECURSIVE textDedupedChunks(_, _)
textDedupedChunks(chunks, uniqueChunks) ==
  IF chunks = <<>> THEN <<>>
  ELSE LET normalizedChunk == ToLower(Trim(Head(chunks)))
       IN IF normalizedChunk \in uniqueChunks
          THEN textDedupedChunks(Tail(chunks), uniqueChunks)
          ELSE <<Head(chunks)>>
               \o textDedupedChunks(Tail(chunks), uniqueChunks \cup {normalizedChunk})

\* ------------------------------------------------------------ prioritization

\* Instants are whole minutes (the synthetic timestamps are 60000 ms apart).
minutesPerDay == 24 * 60

\* Date.now() during one call, in minutes.
Now == 3 * minutesPerDay

\* A sort that keeps one item per score (as if keyed by score).
RECURSIVE sortDescendingByKey(_)
sortDescendingByKey(scored) ==
  IF scored = <<>> THEN <<>>
  ELSE LET rest == sortDescendingByKey(SubSeq(scored, 1, Len(scored) - 1))
           x == scored[Len(scored)]
       IN IF \E k \in 1..Len(rest) : rest[k].score = x.score THEN rest
          ELSE SelectSeq(rest, LAMBDA y : y.score > x.score) \o <<x>>
               \o SelectSeq(rest, LAMBDA y : y.score < x.score)

\* An insertion that puts an item before the items of equal score (the sort
\* is then descending but not stable).
RECURSIVE InsertDescendingBeforeTies(_, _)
InsertDescendingBeforeTies(sorted, x) ==
  IF sorted = <<>> THEN <<x>>
  ELSE IF Head(sorted).score > x.score
       THEN <<Head(sorted)>> \o InsertDescendingBeforeTies(Tail(sorted), x)
       ELSE <<x>> \o sorted

\* Array.prototype.sort with the comparator (a, b) => b.score - a.score:
\* descending and stable.
RECURSIVE InsertDescending(_, _)
InsertDescending(sorted, x) ==
  IF sorted = <<>> THEN <<x>>
  ELSE IF Head(sorted).score >= x.score
       THEN <<Head(sorted)>> \o InsertDescending(Tail(sorted), x)
       ELSE <<x>> \o sorted

RECURSIVE sortDescending(_)
sortDescending(scored) ==
  IF scored = <<>> THEN <<>>
  ELSE InsertDescending(sortDescending(SubSeq(scored, 1, Len(scored) - 1)),
                        scored[Len(scored)])

\* The items of list in the order of the sorted score records.
InOrder(list, sorted) == [k \in 1..Len(sorted) |-> list[sorted[k].index]]

\* new Date(Date.now() - (length - index) * 60000), index counted from 0.
SyntheticTimestamp(n, i) == Now - (n - (i - 1))

\* Math.max(0, 1 - ageMs / (24 * 60 * 60 * 1000)), as a number of 1/minutesPerDay.
recencyScore(timestamp) ==
  LET age == Now - timestamp
  IN IF minutesPerDay - age < 0 THEN 0 ELSE minutesPerDay - age

\* text.toLowerCase().split(/\s+/)
RECURSIVE SplitWords(_, _)
SplitWords(s, word) ==
  IF s = <<>> THEN <<word>>
  ELSE IF Head(s) \in {SP, NL}
       THEN <<word>> \o SplitWords(TrimLeft(Tail(s)), <<>>)
       ELSE SplitWords(Tail(s), Append(word, Head(s)))

Words(text) == SplitWords(ToLower(text), <<>>)

\* Share of the prompt's words found among the chunk's words, in 1/SimScale.
keywordRelevance(text, userPrompt) ==
  LET promptWords == Words(userPrompt)
      chunkWords == Words(text)
      found == {k \in 1..Len(promptWords) :
                  \E c \in 1..Len(chunkWords) : chunkWords[c] = promptWords[k]}
  IN (Cardinality(found) * SimScale) \div Len(promptWords)

\* relevance * 0.7 + recency * 0.3, in units of 1 / (10 * SimScale * minutesPerDay).
hybridScore(relevance, recency) == 7 * relevance * minutesPerDay + 3 * recency * SimScale

prioritizeByRecency(chunks) ==
  LET n == Len(chunks)
      scored == [i \in 1..n |-> [index |-> i, score |-> SyntheticTimestamp(n, i)]]
  IN InOrder(chunks, sortDescending(scored))

prioritizeByKeywordRelevance(chunks, userPrompt) ==
  LET scored == [i \in 1..Len(chunks) |->
                   [index |-> i, score |-> keywordRelevance(chunks[i], userPrompt)]]
  IN InOrder(chunks, sortDescending(scored))

prioritizeKeywordHybrid(chunks, userPrompt) ==
  LET n == Len(chunks)
      scored == [i \in 1..n |->
                   [index |-> i,
                    score |-> hybridScore(keywordRelevance(chunks[i], userPrompt),
                                          recencyScore(SyntheticTimestamp(n, i)))]]
  IN InOrder(chunks, sortDescending(scored))

prioritizeBySemanticRelevance(chunks, chunkEmbeddings, promptEmbedding) ==
  LET scored == [i \in 1..Len(chunks) |->
                   [index |-> i,
                    score |-> cosineSimilarity(promptEmbedding, chunkEmbeddings[i])]]
  IN InOrder(chunks, sortDescending(scored))

prioritizeSemanticHybrid(chunks, chunkEmbeddings, promptEmbedding) ==
  LET n == Len(chunks)
      scored == [i \in 1..n |->
                   [index |-> i,
                    score |-> hybridScore(
                                cosineSimilarity(promptEmbedding, chunkEmbeddings[i]),
                                recencyScore(SyntheticTimestamp(n, i)))]]
  IN InOrder(chunks, sortDescending(scored))

\* The keyword strategies: prioritize without a provider, and the catch
\* branch of prioritizeWithEmbeddings.
prioritizeByKeywords(chunks, userPrompt, strategy) ==
  CASE strategy = "recency" -> prioritizeByRecency(chunks)
    [] strategy = "relevance" -> prioritizeByKeywordRelevance(chunks, userPrompt)
    [] OTHER -> prioritizeKeywordHybrid(chunks, userPrompt)

\* Do the semantic strategies, which compare the first embedding (the
\* prompt's or the query's) with every other, end in the exception of
\* cosineSimilarity?  The recency strategy compares nothing.
relevanceThrows(embeddings, strategy) ==
  /\ strategy # "recency"
  /\ \E i \in 2..Len(embeddings) : Len(embeddings[i]) # Len(embeddings[1])

\* The try branch of prioritizeWithEmbeddings; embeddings answers
\* [userPrompt, chunk_1, ..., chunk_n].
prioritizeWithEmbeddings(chunks, embeddings, strategy) ==
  LET promptEmbedding == embeddings[1]
      chunkEmbeddings == Tail(embeddings)
  IN CASE strategy = "recency" -> prioritizeByRecency(chunks)
       [] strategy = "relevance" ->
            prioritizeBySemanticRelevance(chunks, chunkEmbeddings, promptEmbedding)
       [] OTHER -> prioritizeSemanticHybrid(chunks, chunkEmbeddings, promptEmbedding)

\* --- chat flavour

\* msg.timestamp || new Date(Date.now() - (messages.length - index) * 60000);
\* a message's timestamp is <<>> when the caller gave none, <<t>> otherwise.
MessageTimestamp(messages, i) ==
  IF messages[i].timestamp = <<>> THEN SyntheticTimestamp(Len(messages), i)
  ELSE messages[i].timestamp[1]

\* getRoleImportanceScore, in tenths.
getRoleImportanceScore(role) ==
  CASE role = "system" -> 10
    [] role = "user" -> 8
    [] role = "assistant" -> 6
    [] OTHER -> 5

\* relevance * 0.4 + recency * 0.2 + position * 0.3 + role * 0.1 for message i
\* of n, in units of 1 / (10 * SimScale * minutesPerDay * n).
chatHybridScore(relevance, recency, i, n, roleScore) ==
  4 * relevance * minutesPerDay * n
  + 2 * recency * SimScale * n
  + 3 * i * SimScale * minutesPerDay
  + roleScore * (SimScale \div 10) * minutesPerDay * n

prioritizeByRecencyChat(messages) ==
  LET scored == [i \in 1..Len(messages) |->
                   [index |-> i, score |-> MessageTimestamp(messages, i)]]
  IN InOrder(messages, sortDescending(scored))

prioritizeBySemanticRelevanceChat(messages, messageEmbeddings, queryEmbedding) ==
  LET scored == [i \in 1..Len(messages) |->
                   [index |-> i,
                    score |-> cosineSimilarity(queryEmbedding, messageEmbeddings[i])]]
  IN InOrder(messages, sortDescending(scored))

prioritizeSemanticHybridForChat(messages, messageEmbeddings, queryEmbedding) ==
  LET n == Len(messages)
      scored == [i \in 1..n |->
                   [index |-> i,
                    score |-> chatHybridScore(
                                cosineSimilarity(queryEmbedding, messageEmbeddings[i]),
                                recencyScore(MessageTimestamp(messages, i)),
                                i, n, getRoleImportanceScore(messages[i].role))]]
  IN InOrder(messages, sortDescending(scored))

\* prioritizeChatMessages after its embedding request was answered with
\* embeddings for [queryText, content_1, ..., content_n].
prioritizeChatWithEmbeddings(messages, embeddings, strategy) ==
  LET queryEmbedding == embeddings[1]
      messageEmbeddings == Tail(embeddings)
  IN CASE strategy = "recency" -> prioritizeByRecencyChat(messages)
       [] strategy = "relevance" ->
            prioritizeBySemanticRelevanceChat(messages, messageEmbeddings, queryEmbedding)
       [] OTHER ->
            prioritizeSemanticHybridForChat(messages, messageEmbeddings, queryEmbedding)

\* ------------------------------------------------------------------ inputs

Roles == {"system", "user", "assistant"}

\* The contents of chat messages.
ChatTexts == {TextA, TextB}

\* Chat messages: every role and content without a timestamp, and one message
\* that carries a caller-supplied timestamp (a day old).
StampedMessage == [role |-> "user", content |-> TextA, timestamp |-> <<Now - minutesPerDay>>]
Messages == [role : Roles, content : ChatTexts, timestamp : {<<>>}] \cup {StampedMessage}

ListsOver(S) == UNION {[1..n -> S] : n \in 0..MaxLen}

Thresholds == {800, semanticThreshold}
Strategies == {"recency", "relevance", "hybrid", "custom"}

\* What the provider may answer for the texts of a set: one vector per
\* trimmed text (the embedding is a function of the text sent).
Embeddings(texts) == [{Trim(t) : t \in texts} -> Vectors]

\* ------------------------------------------------------------------- state

VARIABLES
  pc,        \* "idle", "awaitDedupe", "awaitPrioritize" or "done"
  op,        \* the exported function in progress
  args,      \* its arguments
  emb,       \* {} until the provider first answers, then {its embedding function}
  work,      \* the local variables alive across an await; once the trimming
             \* has run: the list it was given (prioritized) and what it kept
  requests,  \* the embedding requests this call issued so far, in order
  outcome,   \* "none", "returned" or "threw"
  result,    \* the value returned
  error,     \* the message thrown
  chained,   \* the call's items are the result of the previous, identical call
  rejected,  \* the provider rejected a request of this call or of the one before
  providerCreated  \* createEmbeddingProvider built a provider in this call

vars == <<pc, op, args, emb, work, requests, outcome, result, error, chained,
          rejected, providerCreated>>

NoArgs ==
  [items |-> <<>>, query |-> <<>>, strategy |-> "hybrid",
   threshold |-> semanticThreshold, provider |-> FALSE, maxTokens |-> 0,
   dedupe |-> TRUE, compress |-> FALSE,
   preserveSystemMessage |-> TRUE, preserveLastNMessages |-> 0,
   maxMessages |-> 0]

NoWork ==
  [list |-> <<>>, deduplicated |-> <<>>, role |-> 0, preserved |-> <<>>,
   available |-> 0, trimmed |-> FALSE, prioritized |-> <<>>]

NoResult == [items |-> <<>>, text |-> <<>>, tokenCount |-> 0, dropped |-> <<>>]

Init ==
  /\ pc = "idle"
  /\ op = "none"
  /\ args = NoArgs
  /\ emb = {}
  /\ work = NoWork
  /\ requests = <<>>
  /\ outcome = "none"
  /\ result = NoResult
  /\ error = ""
  /\ chained = FALSE
  /\ rejected = FALSE
  /\ providerCreated = FALSE

\* The function returns the record r.
ReturnResult(r) ==
  /\ pc' = "done"
  /\ outcome' = "returned"
  /\ result' = r
  /\ error' = ""
  /\ work' = NoWork

\* The function returns a list.
Return(items) == ReturnResult([NoResult EXCEPT !.items = items])

\* The function throws.
Throw(message) ==
  /\ pc' = "done"
  /\ outcome' = "threw"
  /\ result' = NoResult
  /\ error' = message
  /\ work' = NoWork

\* await embeddingProvider.getEmbeddings(texts): the request goes out after
\* the requests issued before, and the function is suspended at stage.
Await(stage, before, texts, locals) ==
  /\ pc' = stage
  /\ requests' = Append(before, EmbeddingInput(texts))
  /\ work' = locals
  /\ outcome' = "none"
  /\ result' = NoResult
  /\ error' = ""

DedupeProviderRequired ==
  "Embedding provider is required for semantic deduplication. Please provide an OpenAI API key."

PrioritizeProviderRequired ==
  "Embedding provider is required for semantic prioritization. Please provide an OpenAI API key."

ProviderError == "OpenAI API error"

Range(list) == {list[i] : i \in 1..Len(list)}

\* messages.map(m => m.content)
Contents(messages) == [i \in 1..Len(messages) |-> messages[i].content]

\* The provider answers a request: with the embedding function it already
\* showed, or, on its first answer, with any embedding function over texts
\* (the texts the call in progress can send).
Answers(texts) == IF emb = {} THEN Embeddings(texts) ELSE emb

\* Vectors of a provider that keeps no single dimension: a unit vector, a
\* zero vector and a shorter vector.
LengthVectors == {<<1, 0>>, <<0, 0>>, <<1>>}

\* The answers of such a provider.
AnswersOfAnyLength(texts) ==
  IF emb = {} THEN [{Trim(t) : t \in texts} -> LengthVectors] ELSE emb

VectorsLengthError == "Vectors must have the same length"

\* ----------------------------------------------------- deduplicate (chunks)

\* The chunks.length === 0 test that opens deduplicate.
noChunks(chunks) == chunks = <<>>

\* deduplicate(chunks, embeddingProvider, semanticThreshold) up to its await.
StartDeduplicate(chunks, provider, threshold) ==
  LET textDeduped == textDedupedChunks(chunks, {})
  IN /\ op' = "deduplicate"
     /\ args' = [NoArgs EXCEPT !.items = chunks, !.provider = provider,
                               !.threshold = threshold]
     /\ IF noChunks(chunks) THEN Return(<<>>) /\ requests' = <<>>
        ELSE IF ~provider \/ Len(textDeduped) <= 1
             THEN Return(textDeduped) /\ requests' = <<>>
             ELSE Await("awaitDedupe", <<>>, textDeduped,
                        [NoWork EXCEPT !.list = textDeduped])

Deduplicate ==
  /\ pc = "idle"
  /\ \E chunks \in ListsOver(Texts), provider \in BOOLEAN, threshold \in Thresholds :
       StartDeduplicate(chunks, provider, threshold)
  /\ UNCHANGED <<emb, chained, rejected, providerCreated>>

\* deduplicate is called again on the list it returned, with the same
\* provider and threshold.
DeduplicateAgain ==
  /\ pc = "done" /\ op = "deduplicate" /\ outcome = "returned"
  /\ StartDeduplicate(result.items, args.provider, args.threshold)
  /\ chained' = TRUE
  /\ UNCHANGED <<emb, rejected, providerCreated>>

\* The embeddings arrive: the greedy scan runs and the survivors are returned.
DeduplicateSettles(e) ==
  /\ emb' = {e}
  /\ IF scanThrows(getEmbeddings(e, work.list), args.threshold, 1, <<>>)
     THEN Return(work.list) \* the catch block
     ELSE Return(semanticUnique(work.list, getEmbeddings(e, work.list),
                                args.threshold))
  /\ UNCHANGED <<op, args, requests, chained, rejected, providerCreated>>

DeduplicateResolved ==
  /\ pc = "awaitDedupe" /\ op = "deduplicate"
  /\ \E e \in Answers(Range(args.items)) : DeduplicateSettles(e)

\* The same with a provider whose vectors differ in length.
DeduplicateResolvedAnyLength ==
  /\ pc = "awaitDedupe" /\ op = "deduplicate"
  /\ \E e \in AnswersOfAnyLength(Range(args.items)) : DeduplicateSettles(e)

\* getEmbeddings throws: the catch block returns the text-deduplicated chunks.
DeduplicateRejected ==
  /\ pc = "awaitDedupe" /\ op = "deduplicate"
  /\ Return(work.list)
  /\ rejected' = TRUE
  /\ UNCHANGED <<op, args, emb, requests, chained, providerCreated>>

\* --------------------------------------------- deduplicateMessages (chat)

RoleOrder == <<"system", "user", "assistant">>

\* messages.filter(m => m.role === role)
roleMessages(messages, role) == SelectSeq(messages, LAMBDA m : m.role = role)

\* The loop over messagesByRole from its k-th role, up to the next role that
\* needs an embedding request (role = 4: the loop is over).  Roles without
\* messages are skipped, a role with one message keeps it.
RECURSIVE roleLoopSkipSingle(_, _, _)
roleLoopSkipSingle(messages, deduplicated, k) ==
  IF k > Len(RoleOrder) THEN [deduplicated |-> deduplicated, role |-> k]
  ELSE LET these == roleMessages(messages, RoleOrder[k])
       IN IF Len(these) <= 1 THEN roleLoopSkipSingle(messages, deduplicated, k + 1)
          ELSE [deduplicated |-> deduplicated, role |-> k]

RECURSIVE roleLoop(_, _, _)
roleLoop(messages, deduplicated, k) ==
  IF k > Len(RoleOrder) THEN [deduplicated |-> deduplicated, role |-> k]
  ELSE LET these == roleMessages(messages, RoleOrder[k])
       IN IF Len(these) = 0 THEN roleLoop(messages, deduplicated, k + 1)
          ELSE IF Len(these) = 1 THEN roleLoop(messages, deduplicated \o these, k + 1)
          ELSE [deduplicated |-> deduplicated, role |-> k]

\* restoreOrder without the restoring: the kept messages role by role.
restoreOrderByRole(messages, deduplicatedMessages) == deduplicatedMessages

\* "Restore original message order": the messages whose content is the
\* content of a kept message.
restoreOrder(messages, deduplicatedMessages) ==
  LET keptMessages == {deduplicatedMessages[i].content : i \in 1..Len(deduplicatedMessages)}
  IN SelectSeq(messages, LAMBDA m : m.content \in keptMessages)

\* The role loop of deduplicateMessages continues at role k: it either
\* suspends on the next embedding request or ends, and then the messages are
\* put back in input order and handed to Finished with the requests so far.
DedupeRoles(messages, deduplicated, k, before, locals, Finished(_, _)) ==
  LET next == roleLoop(messages, deduplicated, k)
  IN IF next.role > Len(RoleOrder)
     THEN Finished(restoreOrder(messages, next.deduplicated), before)
     ELSE Await("awaitDedupe", before,
                Contents(roleMessages(messages, RoleOrder[next.role])),
                [locals EXCEPT !.list = messages,
                               !.deduplicated = next.deduplicated,
                               !.role = next.role])

\* The scan of the role whose embeddings arrived.
uniqueMessages(messages, role, e, threshold) ==
  LET these == roleMessages(messages, role)
  IN semanticUnique(these, getEmbeddings(e, Contents(these)), threshold)

ReturnList(items, before) == Return(items) /\ requests' = before

\* The checks with the single-message return before the provider check.
dedupeMessagesChecksShortFirst(messages, provider) ==
  IF messages = <<>> THEN "noMessages"
  ELSE IF Len(messages) <= 1 THEN "oneMessage"
  ELSE IF ~provider THEN "noProvider"
  ELSE "scan"

\* The checks that open deduplicateMessages, in the order of the code.
dedupeMessagesChecks(messages, provider) ==
  IF messages = <<>> THEN "noMessages"
  ELSE IF ~provider THEN "noProvider"
  ELSE IF Len(messages) <= 1 THEN "oneMessage"
  ELSE "scan"

\* deduplicateMessages(messages, embeddingProvider, semanticThreshold) up to
\* its first await.
StartDeduplicateMessages(messages, provider, threshold) ==
  /\ op' = "deduplicateMessages"
  /\ args' = [NoArgs EXCEPT !.items = messages, !.provider = provider,
                            !.threshold = threshold]
  /\ IF dedupeMessagesChecks(messages, provider) = "noMessages"
     THEN ReturnList(<<>>, <<>>)
     ELSE IF dedupeMessagesChecks(messages, provider) = "noProvider"
     THEN Throw(DedupeProviderRequired) /\ requests' = <<>>
     ELSE IF dedupeMessagesChecks(messages, provider) = "oneMessage"
     THEN ReturnList(messages, <<>>)
     ELSE DedupeRoles(messages, <<>>, 1, <<>>, NoWork, ReturnList)

DeduplicateMessages ==
  /\ pc = "idle"
  /\ \E messages \in ListsOver(Messages), provider \in BOOLEAN,
        threshold \in Thresholds :
       StartDeduplicateMessages(messages, provider, threshold)
  /\ UNCHANGED <<emb, chained, rejected, providerCreated>>

\* deduplicateMessages is called again on the list it returned.
DeduplicateMessagesAgain ==
  /\ pc = "done" /\ op = "deduplicateMessages" /\ outcome = "returned"
  /\ StartDeduplicateMessages(result.items, args.provider, args.threshold)
  /\ chained' = TRUE
  /\ UNCHANGED <<emb, rejected, providerCreated>>

\* The embeddings of one role arrive: its scan runs and the loop goes on.
DeduplicateMessagesSettles(e) ==
  /\ emb' = {e}
  /\ IF scanThrows(getEmbeddings(e, Contents(roleMessages(work.list,
                                                        RoleOrder[work.role]))),
                   args.threshold, 1, <<>>)
     THEN Throw(VectorsLengthError) /\ requests' = requests
     ELSE DedupeRoles(work.list,
                      work.deduplicated
                        \o uniqueMessages(work.list, RoleOrder[work.role], e,
                                          args.threshold),
                      work.role + 1, requests, work, ReturnList)
  /\ UNCHANGED <<op, args, chained, rejected, providerCreated>>

DeduplicateMessagesResolved ==
  /\ pc = "awaitDedupe" /\ op = "deduplicateMessages"
  /\ \E e \in Answers(Range(Contents(args.items))) : DeduplicateMessagesSettles(e)

\* The same with a provider whose vectors differ in length.
DeduplicateMessagesResolvedAnyLength ==
  /\ pc = "awaitDedupe" /\ op = "deduplicateMessages"
  /\ \E e \in AnswersOfAnyLength(Range(Contents(args.items))) :
       DeduplicateMessagesSettles(e)

\* getEmbeddings throws: nothing catches it, deduplicateMessages throws.
DeduplicateMessagesRejected ==
  /\ pc = "awaitDedupe" /\ op = "deduplicateMessages"
  /\ Throw(ProviderError)
  /\ rejected' = TRUE
  /\ UNCHANGED <<op, args, emb, requests, chained, providerCreated>>

\* ------------------------------------------------------ prioritize (chunks)

\* The prompts of the chunk flavour.
Prompts == {TextA}

\* prioritize(chunks, userPrompt, strategy, embeddingProvider) up to the await
\* of prioritizeWithEmbeddings.
StartPrioritize(chunks, userPrompt, strategy, provider) ==
  /\ op' = "prioritize"
  /\ args' = [NoArgs EXCEPT !.items = chunks, !.query = userPrompt,
                            !.strategy = strategy, !.provider = provider]
  /\ IF chunks = <<>> THEN ReturnList(<<>>, <<>>)
     ELSE IF ~provider
          THEN ReturnList(prioritizeByKeywords(chunks, userPrompt, strategy), <<>>)
          ELSE Await("awaitPrioritize", <<>>, <<userPrompt>> \o chunks,
                     [NoWork EXCEPT !.list = chunks])

Prioritize ==
  /\ pc = "idle"
  /\ \E chunks \in ListsOver(Texts), userPrompt \in Prompts,
        strategy \in Strategies, provider \in BOOLEAN :
       StartPrioritize(chunks, userPrompt, strategy, provider)
  /\ UNCHANGED <<emb, chained, rejected, providerCreated>>

PrioritizeSettles(e) ==
  /\ emb' = {e}
  /\ IF relevanceThrows(getEmbeddings(e, <<args.query>> \o work.list), args.strategy)
     THEN Return(prioritizeByKeywords(work.list, args.query, args.strategy))
     ELSE Return(prioritizeWithEmbeddings(
                   work.list, getEmbeddings(e, <<args.query>> \o work.list),
                   args.strategy))
  /\ UNCHANGED <<op, args, requests, chained, rejected, providerCreated>>

PrioritizeResolved ==
  /\ pc = "awaitPrioritize" /\ op = "prioritize"
  /\ \E e \in Answers(Range(args.items) \cup {args.query}) : PrioritizeSettles(e)

\* The same with a provider whose vectors differ in length.
PrioritizeResolvedAnyLength ==
  /\ pc = "awaitPrioritize" /\ op = "prioritize"
  /\ \E e \in AnswersOfAnyLength(Range(args.items) \cup {args.query}) :
       PrioritizeSettles(e)

\* getEmbeddings throws: the catch block falls back to the keyword strategies.
PrioritizeRejected ==
  /\ pc = "awaitPrioritize" /\ op = "prioritize"
  /\ Return(prioritizeByKeywords(work.list, args.query, args.strategy))
  /\ rejected' = TRUE
  /\ UNCHANGED <<op, args, emb, requests, chained, providerCreated>>

\* ------------------------------------------- prioritizeChatMessages (chat)

StartPrioritizeChatMessages(messages, queryText, strategy, provider) ==
  /\ op' = "prioritizeChatMessages"
  /\ args' = [NoArgs EXCEPT !.items = messages, !.query = queryText,
                            !.strategy = strategy, !.provider = provider]
  /\ IF messages = <<>> THEN ReturnList(<<>>, <<>>)
     ELSE IF ~provider THEN Throw(PrioritizeProviderRequired) /\ requests' = <<>>
     ELSE Await("awaitPrioritize", <<>>, <<queryText>> \o Contents(messages),
                [NoWork EXCEPT !.list = messages])

PrioritizeChatMessages ==
  /\ pc = "idle"
  /\ \E messages \in ListsOver(Messages), queryText \in Prompts,
        strategy \in Strategies, provider \in BOOLEAN :
       StartPrioritizeChatMessages(messages, queryText, strategy, provider)
  /\ UNCHANGED <<emb, chained, rejected, providerCreated>>

PrioritizeChatMessagesSettles(e) ==
  /\ emb' = {e}
  /\ IF relevanceThrows(getEmbeddings(e, <<args.query>> \o Contents(work.list)),
                        args.strategy)
     THEN Throw(VectorsLengthError)
     ELSE Return(prioritizeChatWithEmbeddings(
                   work.list,
                   getEmbeddings(e, <<args.query>> \o Contents(work.list)),
                   args.strategy))
  /\ UNCHANGED <<op, args, requests, chained, rejected, providerCreated>>

PrioritizeChatMessagesResolved ==
  /\ pc = "awaitPrioritize" /\ op = "prioritizeChatMessages"
  /\ \E e \in Answers(Range(Contents(args.items)) \cup {args.query}) :
       PrioritizeChatMessagesSettles(e)

\* The same with a provider whose vectors differ in length.
PrioritizeChatMessagesResolvedAnyLength ==
  /\ pc = "awaitPrioritize" /\ op = "prioritizeChatMessages"
  /\ \E e \in AnswersOfAnyLength(Range(Contents(args.items)) \cup {args.query}) :
       PrioritizeChatMessagesSettles(e)

PrioritizeChatMessagesRejected ==
  /\ pc = "awaitPrioritize" /\ op = "prioritizeChatMessages"
  /\ Throw(ProviderError)
  /\ rejected' = TRUE
  /\ UNCHANGED <<op, args, emb, requests, chained, providerCreated>>

\* ------------------------------------------------- the stage functions alone

StageNext ==
  \/ Deduplicate
  \/ DeduplicateAgain
  \/ DeduplicateResolved
  \/ DeduplicateRejected
  \/ DeduplicateMessages
  \/ DeduplicateMessagesAgain
  \/ DeduplicateMessagesResolved
  \/ DeduplicateMessagesRejected
  \/ Prioritize
  \/ PrioritizeResolved
  \/ PrioritizeRejected
  \/ PrioritizeChatMessages
  \/ PrioritizeChatMessagesResolved
  \/ PrioritizeChatMessagesRejected

StageSpec == Init /\ [][StageNext]_vars

\* The stage functions with a provider whose vectors differ in length.
SimilarityNext ==
  \/ Deduplicate
  \/ DeduplicateResolvedAnyLength
  \/ DeduplicateMessages
  \/ DeduplicateMessagesResolvedAnyLength
  \/ Prioritize
  \/ PrioritizeResolvedAnyLength
  \/ PrioritizeChatMessages
  \/ PrioritizeChatMessagesResolvedAnyLength

SimilaritySpec == Init /\ [][SimilarityNext]_vars

\* ---------------------------------------------------------------- trimming

chunkCost(chunks) == countTokens(Join(chunks, <<NL>>))

\* A trimming that pops at most once (an if where the loop is).
trimChunksOnce(chunks, available) ==
  IF chunkCost(chunks) > available /\ Len(chunks) > 0
  THEN SubSeq(chunks, 1, Len(chunks) - 1)
  ELSE chunks

\* A trimming whose test is >= where the loop has >.
RECURSIVE trimChunksStrict(_, _)
trimChunksStrict(chunks, available) ==
  IF chunkCost(chunks) >= available /\ Len(chunks) > 0
  THEN trimChunksStrict(SubSeq(chunks, 1, Len(chunks) - 1), available)
  ELSE chunks

\* The final trimming loop of optimizePrompt: while the chunks cost more than
\* available and some are left, the last one is removed.
RECURSIVE trimChunks(_, _)
trimChunks(chunks, available) ==
  IF chunkCost(chunks) > available /\ Len(chunks) > 0
  THEN trimChunks(SubSeq(chunks, 1, Len(chunks) - 1), available)
  ELSE chunks

\* A compression that keeps the first chunk only.
compressLoopToOne(chunks, maxTokens) == <<chunks[1]>>

\* compress(chunks, maxTokens): pops from the end while over maxTokens and
\* more than one chunk is left.
RECURSIVE compressLoop(_, _)
compressLoop(chunks, maxTokens) ==
  IF chunkCost(chunks) > maxTokens /\ Len(chunks) > 1
  THEN compressLoop(SubSeq(chunks, 1, Len(chunks) - 1), maxTokens)
  ELSE chunks

compress(chunks, maxTokens) ==
  IF chunks = <<>> THEN <<>>
  ELSE IF chunkCost(chunks) <= maxTokens THEN chunks
  ELSE compressLoop(chunks, maxTokens)

\* array.filter(x => !kept.has(x)) for a Set kept.
NotIn(list, kept) == SelectSeq(list, LAMBDA x : x \notin kept)

\* ---------------------------------------------------------- optimizePrompt

\* Tokens optimizePrompt keeps free for formatting.
promptBuffer == 10

\* Math.max(0, opts.maxTokens - promptTokens - 10)
availableTokensForContext(maxTokens, userPrompt) ==
  LET free == maxTokens - countTokens(userPrompt) - promptBuffer
  IN IF free < 0 THEN 0 ELSE free

\* Steps 3 and 4 of optimizePrompt and the building of its result, from the
\* prioritized chunks on; a are the call's arguments.
FinishPrompt(a, prioritized) ==
  LET available == availableTokensForContext(a.maxTokens, a.query)
      compressed == IF chunkCost(prioritized) > available /\ a.compress
                    THEN compress(prioritized, available)
                    ELSE prioritized
      chunks == trimChunks(compressed, available)
      contextText == Join(chunks, <<NL>>)
      finalPrompt == IF contextText # <<>>
                     THEN a.query \o <<NL, NL>> \o contextText
                     ELSE a.query
  IN /\ pc' = "done"
     /\ outcome' = "returned"
     /\ error' = ""
     /\ result' = [items |-> chunks,
                   text |-> finalPrompt,
                   tokenCount |-> countTokens(finalPrompt),
                   dropped |-> NotIn(a.items, Range(chunks))]
     /\ work' = [NoWork EXCEPT !.list = chunks, !.available = available,
                               !.trimmed = TRUE, !.prioritized = prioritized]

\* Step 2 of optimizePrompt: prioritize(chunks, userPrompt, strategy, provider)
\* up to the await in prioritizeWithEmbeddings (no chunks: it returns [] at
\* once); before are the requests so far.
PrioritizeChunks(a, chunks, before) ==
  IF chunks = <<>>
  THEN FinishPrompt(a, <<>>) /\ requests' = before
  ELSE Await("awaitPrioritize", before, <<a.query>> \o chunks,
             [NoWork EXCEPT !.list = chunks])

\* An embedding provider whatever the key.
createEmbeddingProviderAlways(apiKey) == TRUE

\* createEmbeddingProvider(apiKey, model, provider): null (FALSE) when
\* !apiKey, a configured EmbeddingProvider (TRUE) otherwise; apiKey tells
\* whether openaiApiKey is a non-empty string.
createEmbeddingProvider(apiKey) == IF ~apiKey THEN FALSE ELSE TRUE

\* The checks with a budget test that lets 0 through.
promptChecksNegativeBudget(userPrompt, context, maxTokens) ==
  IF userPrompt = <<>> THEN "noPrompt"
  ELSE IF context = <<>> THEN "noContext"
  ELSE IF maxTokens < 0 THEN "noBudget"
  ELSE "ok"

\* The checks that open optimizePrompt, in the order of the code.
promptChecks(userPrompt, context, maxTokens) ==
  IF userPrompt = <<>> THEN "noPrompt"
  ELSE IF context = <<>> THEN "noContext"
  ELSE IF maxTokens <= 0 THEN "noBudget"
  ELSE "ok"

\* The checks with the budget test first.
chatChecksBudgetFirst(messages, maxTokens) ==
  IF maxTokens <= 0 THEN "noBudget"
  ELSE IF messages = <<>> THEN "noMessages"
  ELSE "ok"

\* The checks that open optimizeChatHistory, in the order of the code.
chatChecks(messages, maxTokens) ==
  IF messages = <<>> THEN "noMessages"
  ELSE IF maxTokens <= 0 THEN "noBudget"
  ELSE "ok"

\* A result that always appends the blank line and the (empty) context.
emptyContextResultJoined(userPrompt) ==
  [NoResult EXCEPT !.text = userPrompt \o <<NL, NL>>,
                   !.tokenCount = countTokens(userPrompt \o <<NL, NL>>)]

\* What optimizePrompt returns when there is no context.
emptyContextResult(userPrompt) ==
  [NoResult EXCEPT !.text = userPrompt,
                   !.tokenCount = countTokens(userPrompt)]

\* The contexts, prompts and budgets optimizePrompt is called with.
PromptTexts == {TextA, TextA2, TextB}
PromptInputs == {<<>>, TextA}
PromptBudgets == {0, 1, 14, 15}
PipelineStrategies == {"recency", "relevance", "hybrid"}

PromptRequired == "User prompt is required"
MaxTokensPositive == "maxTokens must be positive"
ProviderFailed == "Failed to create embedding provider. Please check your OpenAI API key."

\* optimizePrompt(opts) up to its first await.  provider: openaiApiKey is set.
OptimizePrompt ==
  /\ pc = "idle"
  /\ \E userPrompt \in PromptInputs, context \in ListsOver(PromptTexts),
        maxTokens \in PromptBudgets, provider \in BOOLEAN, dedupe \in BOOLEAN,
        strategy \in PipelineStrategies, doCompress \in BOOLEAN :
       LET textDeduped == textDedupedChunks(context, {})
       IN /\ op' = "optimizePrompt"
          /\ args' = [NoArgs EXCEPT !.items = context, !.query = userPrompt,
                                    !.maxTokens = maxTokens, !.provider = provider,
                                    !.dedupe = dedupe, !.strategy = strategy,
                                    !.compress = doCompress]
          /\ IF promptChecks(userPrompt, context, maxTokens) = "noPrompt"
             THEN Throw(PromptRequired) /\ requests' = <<>>
                  /\ providerCreated' = FALSE
             ELSE IF promptChecks(userPrompt, context, maxTokens) = "noContext"
             THEN /\ ReturnResult(emptyContextResult(userPrompt))
                  /\ requests' = <<>>
                  /\ providerCreated' = FALSE
             ELSE IF promptChecks(userPrompt, context, maxTokens) = "noBudget"
             THEN Throw(MaxTokensPositive) /\ requests' = <<>>
                  /\ providerCreated' = FALSE
             ELSE IF ~createEmbeddingProvider(provider)
             THEN Throw(ProviderFailed) /\ requests' = <<>>
                  /\ providerCreated' = FALSE
             ELSE /\ providerCreated' = TRUE
                  /\ IF dedupe /\ Len(textDeduped) > 1
                     THEN Await("awaitDedupe", <<>>, textDeduped,
                                [NoWork EXCEPT !.list = textDeduped])
                     ELSE PrioritizeChunks(args',
                                           IF dedupe THEN textDeduped ELSE context,
                                           <<>>)
  /\ UNCHANGED <<emb, chained, rejected>>

PromptSent == Range(args.items) \cup {args.query}

\* The embeddings of deduplicate arrive: the scan runs, prioritize is called.
PromptDedupeResolved ==
  /\ pc = "awaitDedupe" /\ op = "optimizePrompt"
  /\ \E e \in Answers(PromptSent) :
       /\ emb' = {e}
       /\ PrioritizeChunks(
            args,
            semanticUnique(work.list, getEmbeddings(e, work.list), args.threshold),
            requests)
  /\ UNCHANGED <<op, args, chained, rejected, providerCreated>>

\* The request of deduplicate fails: its catch block keeps the
\* text-deduplicated chunks, prioritize is called.
PromptDedupeRejected ==
  /\ pc = "awaitDedupe" /\ op = "optimizePrompt"
  /\ PrioritizeChunks(args, work.list, requests)
  /\ rejected' = TRUE
  /\ UNCHANGED <<op, args, emb, chained, providerCreated>>

\* The embeddings of prioritize arrive: the chunks are ordered, trimmed and
\* the result is built.
PromptPrioritizeResolved ==
  /\ pc = "awaitPrioritize" /\ op = "optimizePrompt"
  /\ \E e \in Answers(PromptSent) :
       /\ emb' = {e}
       /\ FinishPrompt(args, prioritizeWithEmbeddings(
                         work.list, getEmbeddings(e, <<args.query>> \o work.list),
                         args.strategy))
  /\ UNCHANGED <<op, args, requests, chained, rejected, providerCreated>>

\* The request of prioritize fails: its catch block orders by keywords.
PromptPrioritizeRejected ==
  /\ pc = "awaitPrioritize" /\ op = "optimizePrompt"
  /\ FinishPrompt(args, prioritizeByKeywords(work.list, args.query, args.strategy))
  /\ rejected' = TRUE
  /\ UNCHANGED <<op, args, emb, requests, chained, providerCreated>>

\* ----------------------------------------------------- optimizeChatHistory

\* Tokens optimizeChatHistory keeps free.
chatBuffer == 50

\* The role as it is written in front of the content.
RoleText(role) ==
  CASE role = "system" -> <<"s", "y", "s", "t", "e", "m">>
    [] role = "user" -> <<"u", "s", "e", "r">>
    [] OTHER -> <<"a", "s", "s", "i", "s", "t", "a", "n", "t">>

\* `${m.role}: ${m.content}`
messageLine(m) == RoleText(m.role) \o <<":", SP>> \o m.content

\* countTokens(messages.map(m => `${m.role}: ${m.content}`).join('\n'))
messageCost(messages) ==
  countTokens(Join([i \in 1..Len(messages) |-> messageLine(messages[i])], <<NL>>))

\* A trimming that removes the first message (shift) where the loop removes
\* the last (pop).
RECURSIVE trimMessagesFromHead(_, _)
trimMessagesFromHead(messages, available) ==
  IF messageCost(messages) > available /\ Len(messages) > 0
  THEN trimMessagesFromHead(Tail(messages), available)
  ELSE messages

\* The token-aware trimming loop of optimizeChatHistory.
RECURSIVE trimMessages(_, _)
trimMessages(messages, available) ==
  IF messageCost(messages) > available /\ Len(messages) > 0
  THEN trimMessages(SubSeq(messages, 1, Len(messages) - 1), available)
  ELSE messages

\* list.slice(-n) and list.slice(0, -n) for n > 0
sliceLast(list, n) ==
  IF n >= Len(list) THEN list ELSE SubSeq(list, Len(list) - n + 1, Len(list))
sliceButLast(list, n) ==
  IF n >= Len(list) THEN <<>> ELSE SubSeq(list, 1, Len(list) - n)

\* A partition that preserves the last N messages only.
preservedLastMessages(messages, preserveSystem, lastN) ==
  LET others == IF preserveSystem
                THEN SelectSeq(messages, LAMBDA m : m.role # "system")
                ELSE messages
  IN IF lastN > 0 THEN sliceLast(others, lastN) ELSE <<>>

\* Step 1 of optimizeChatHistory: the preserved and the working messages.
preservedMessages(messages, preserveSystem, lastN) ==
  LET systemMessages == IF preserveSystem THEN roleMessages(messages, "system")
                        ELSE <<>>
      others == IF preserveSystem
                THEN SelectSeq(messages, LAMBDA m : m.role # "system")
                ELSE messages
  IN IF lastN > 0 THEN systemMessages \o sliceLast(others, lastN)
     ELSE systemMessages

workingMessages(messages, preserveSystem, lastN) ==
  LET others == IF preserveSystem
                THEN SelectSeq(messages, LAMBDA m : m.role # "system")
                ELSE messages
  IN IF lastN > 0 THEN sliceButLast(others, lastN) ELSE others

\* The budget left without the buffer.
availableTokensWithoutBuffer(maxTokens, preserved) ==
  LET free == maxTokens - messageCost(preserved)
  IN IF free < 0 THEN 0 ELSE free

\* Math.max(0, opts.maxTokens - preservedTokens - 50)
availableTokensForOptimization(maxTokens, preserved) ==
  LET free == maxTokens - messageCost(preserved) - chatBuffer
  IN IF free < 0 THEN 0 ELSE free

\* [...messages].reverse().find(m => m.role === "user")?.content || ""
queryText(messages) ==
  LET users == roleMessages(messages, "user")
  IN IF users = <<>> THEN <<>> ELSE users[Len(users)].content

\* Steps 4 and 5 of optimizeChatHistory and its result, from the prioritized
\* working messages on.
FinishChat(a, preserved, available, prioritized) ==
  LET optimizedWorkingMessages == trimMessages(prioritized, available)
      finalMessages == preserved \o optimizedWorkingMessages
      keptMessageContents == Range(Contents(finalMessages))
  IN /\ pc' = "done"
     /\ outcome' = "returned"
     /\ error' = ""
     /\ result' = [items |-> finalMessages,
                   text |-> <<>>,
                   tokenCount |-> messageCost(finalMessages),
                   dropped |-> SelectSeq(a.items,
                                 LAMBDA m : m.content \notin keptMessageContents)]
     /\ work' = [NoWork EXCEPT !.list = optimizedWorkingMessages,
                               !.preserved = preserved,
                               !.available = available,
                               !.trimmed = TRUE,
                               !.prioritized = prioritized]

\* prioritizeChatMessages called whether or not a working message is left.
PrioritizeWorkingAlways(a, preserved, available, working, before) ==
  Await("awaitPrioritize", before,
        <<queryText(a.items)>> \o Contents(working),
        [NoWork EXCEPT !.list = working, !.preserved = preserved,
                       !.available = available])

\* prioritizeChatMessages on the working messages, if there are any, up to
\* its await.
PrioritizeWorking(a, preserved, available, working, before) ==
  IF working = <<>>
  THEN FinishChat(a, preserved, available, <<>>) /\ requests' = before
  ELSE Await("awaitPrioritize", before,
             <<queryText(a.items)>> \o Contents(working),
             [NoWork EXCEPT !.list = working, !.preserved = preserved,
                            !.available = available])

\* The messages and budgets optimizeChatHistory is called with.
PipelineMessages ==
  { [role |-> "system", content |-> TextA, timestamp |-> <<>>],
    [role |-> "user", content |-> TextA, timestamp |-> <<>>],
    [role |-> "user", content |-> TextB, timestamp |-> <<>>],
    [role |-> "assistant", content |-> TextB, timestamp |-> <<>>] }
ChatBudgets == {0, 1, 54, 58}

\* A conversation in which two roles have two messages each, and the
\* conversations optimizeChatHistory is called with.
LongConversation ==
  << [role |-> "user", content |-> TextA, timestamp |-> <<>>],
     [role |-> "assistant", content |-> TextB, timestamp |-> <<>>],
     [role |-> "user", content |-> TextB, timestamp |-> <<>>],
     [role |-> "assistant", content |-> TextB, timestamp |-> <<>>] >>
Conversations == ListsOver(PipelineMessages) \cup {LongConversation}
LastNs == {0, 1}

\* optimizeChatHistory(opts) up to its first await.
OptimizeChatHistory ==
  /\ pc = "idle"
  /\ \E messages \in Conversations, maxTokens \in ChatBudgets,
        provider \in BOOLEAN, dedupe \in BOOLEAN, strategy \in PipelineStrategies,
        preserveSystem \in BOOLEAN, lastN \in LastNs :
       LET preserved == preservedMessages(messages, preserveSystem, lastN)
           working == workingMessages(messages, preserveSystem, lastN)
           available == availableTokensForOptimization(maxTokens, preserved)
           locals == [NoWork EXCEPT !.preserved = preserved, !.available = available]
       IN /\ op' = "optimizeChatHistory"
          /\ args' = [NoArgs EXCEPT !.items = messages, !.maxTokens = maxTokens,
                                    !.provider = provider, !.dedupe = dedupe,
                                    !.strategy = strategy,
                                    !.preserveSystemMessage = preserveSystem,
                                    !.preserveLastNMessages = lastN]
          /\ IF chatChecks(messages, maxTokens) = "noMessages"
             THEN ReturnResult(NoResult) /\ requests' = <<>>
                  /\ providerCreated' = FALSE
             ELSE IF chatChecks(messages, maxTokens) = "noBudget"
             THEN Throw(MaxTokensPositive) /\ requests' = <<>>
                  /\ providerCreated' = FALSE
             ELSE IF ~createEmbeddingProvider(provider)
             THEN Throw(ProviderFailed) /\ requests' = <<>>
                  /\ providerCreated' = FALSE
             ELSE /\ providerCreated' = TRUE
                  /\ IF available <= 0
                     THEN /\ pc' = "done"
                          /\ outcome' = "returned"
                          /\ error' = ""
                          /\ result' = [items |-> preserved,
                                        text |-> <<>>,
                                        tokenCount |-> messageCost(preserved),
                                        dropped |-> working]
                          /\ work' = [locals EXCEPT !.list = working]
                          /\ requests' = <<>>
                     ELSE IF dedupe /\ Len(working) > 1
                     THEN DedupeRoles(working, <<>>, 1, <<>>, locals,
                            LAMBDA list, before :
                              PrioritizeWorking(args', preserved, available, list, before))
                     ELSE PrioritizeWorking(args', preserved, available, working, <<>>)
  /\ UNCHANGED <<emb, chained, rejected>>

ChatSent == Range(Contents(args.items)) \cup {queryText(args.items)}

\* The embeddings of one role arrive in deduplicateMessages.
ChatDedupeResolved ==
  /\ pc = "awaitDedupe" /\ op = "optimizeChatHistory"
  /\ \E e \in Answers(ChatSent) :
       /\ emb' = {e}
       /\ DedupeRoles(work.list,
                      work.deduplicated
                        \o uniqueMessages(work.list, RoleOrder[work.role], e, args.threshold),
                      work.role + 1, requests, work,
                      LAMBDA list, before :
                        PrioritizeWorking(args, work.preserved, work.available,
                                          list, before))
  /\ UNCHANGED <<op, args, chained, rejected, providerCreated>>

\* A request of deduplicateMessages fails: optimizeChatHistory throws.
ChatDedupeRejected ==
  /\ pc = "awaitDedupe" /\ op = "optimizeChatHistory"
  /\ Throw(ProviderError)
  /\ rejected' = TRUE
  /\ UNCHANGED <<op, args, emb, requests, chained, providerCreated>>

\* The embeddings of prioritizeChatMessages arrive: the working messages are
\* ordered, trimmed and the result is built.
ChatPrioritizeResolved ==
  /\ pc = "awaitPrioritize" /\ op = "optimizeChatHistory"
  /\ \E e \in Answers(ChatSent) :
       /\ emb' = {e}
       /\ FinishChat(args, work.preserved, work.available,
                     prioritizeChatWithEmbeddings(
                       work.list,
                       getEmbeddings(e, <<queryText(args.items)>> \o Contents(work.list)),
                       args.strategy))
  /\ UNCHANGED <<op, args, requests, chained, rejected, providerCreated>>

\* The request of prioritizeChatMessages fails: optimizeChatHistory throws.
ChatPrioritizeRejected ==
  /\ pc = "awaitPrioritize" /\ op = "optimizeChatHistory"
  /\ Throw(ProviderError)
  /\ rejected' = TRUE
  /\ UNCHANGED <<op, args, emb, requests, chained, providerCreated>>

\* ------------------------------------------------------------ the pipelines

Next ==
  \/ OptimizePrompt
  \/ PromptDedupeResolved
  \/ PromptDedupeRejected
  \/ PromptPrioritizeResolved
  \/ PromptPrioritizeRejected
  \/ OptimizeChatHistory
  \/ ChatDedupeResolved
  \/ ChatDedupeRejected
  \/ ChatPrioritizeResolved
  \/ ChatPrioritizeRejected

Spec == Init /\ [][Next]_vars

\* ---------------------------------------------------------- chat utilities

\* deduplicateUserMessages and deduplicateAssistantMessages, and the role
\* each of them deduplicates.
RoleDedupers == {"deduplicateUserMessages", "deduplicateAssistantMessages"}
targetRole(name) == IF name = "deduplicateUserMessages" THEN "user" ELSE "assistant"

\* messages.filter(m => m.role !== role)
otherMessages(messages, role) == SelectSeq(messages, LAMBDA m : m.role # role)

\* A merge that forgets the messages of the other roles.
mergeDeduplicatedOnly(messages, others, deduplicated) ==
  LET keptContents == Range(Contents(deduplicated))
  IN SelectSeq(messages, LAMBDA m : m.content \in keptContents)

\* "Merge back with other messages and restore order": the messages whose
\* content is the content of another role's message or of a kept message.
mergeBack(messages, others, deduplicated) ==
  LET allKeptMessages == others \o deduplicated
      keptContents == Range(Contents(allKeptMessages))
  IN SelectSeq(messages, LAMBDA m : m.content \in keptContents)

\* deduplicateUserMessages / deduplicateAssistantMessages up to the first
\* await of the deduplicateMessages call on the messages of the role.
DeduplicateRoleMessages ==
  /\ pc = "idle"
  /\ \E name \in RoleDedupers, messages \in ListsOver(Messages),
        provider \in BOOLEAN, threshold \in Thresholds :
       LET these == roleMessages(messages, targetRole(name))
           others == otherMessages(messages, targetRole(name))
       IN /\ op' = name
          /\ args' = [NoArgs EXCEPT !.items = messages, !.provider = provider,
                                    !.threshold = threshold]
          /\ IF Len(these) <= 1 THEN ReturnList(messages, <<>>)
             ELSE IF dedupeMessagesChecks(these, provider) = "noProvider"
             THEN Throw(DedupeProviderRequired) /\ requests' = <<>>
             ELSE DedupeRoles(these, <<>>, 1, <<>>, NoWork,
                    LAMBDA list, before :
                      ReturnList(mergeBack(messages, others, list), before))
  /\ UNCHANGED <<emb, chained, rejected, providerCreated>>

\* The embeddings of the role arrive: its scan runs, deduplicateMessages
\* returns and the survivors are merged with the other messages.
DeduplicateRoleMessagesResolved ==
  /\ pc = "awaitDedupe" /\ op \in RoleDedupers
  /\ \E e \in Answers(Range(Contents(args.items))) :
       /\ emb' = {e}
       /\ DedupeRoles(work.list,
                      work.deduplicated
                        \o uniqueMessages(work.list, RoleOrder[work.role], e, args.threshold),
                      work.role + 1, requests, work,
                      LAMBDA list, before :
                        ReturnList(mergeBack(args.items,
                                             otherMessages(args.items, targetRole(op)),
                                             list),
                                   before))
  /\ UNCHANGED <<op, args, chained, rejected, providerCreated>>

\* The request fails: deduplicateMessages throws and so does its caller.
DeduplicateRoleMessagesRejected ==
  /\ pc = "awaitDedupe" /\ op \in RoleDedupers
  /\ Throw(ProviderError)
  /\ rejected' = TRUE
  /\ UNCHANGED <<op, args, emb, requests, chained, providerCreated>>

\* Math.min(3, Math.floor(maxMessages / 2))
recentCount(maxMessages) == IF maxMessages \div 2 < 3 THEN maxMessages \div 2 ELSE 3

\* messages.slice(-n) and messages.slice(0, -n) with n = recentCount: for
\* n = 0 these are slice(-0), the whole list, and slice(0, -0), no message.
recentMessages(messages, maxMessages) ==
  IF recentCount(maxMessages) = 0 THEN messages
  ELSE sliceLast(messages, recentCount(maxMessages))

remainingMessages(messages, maxMessages) ==
  IF recentCount(maxMessages) = 0 THEN <<>>
  ELSE sliceButLast(messages, recentCount(maxMessages))

\* prioritizedRemaining.slice(0, remainingSlots) for remainingSlots > 0
selectedMessages(prioritizedRemaining, remainingSlots) ==
  IF remainingSlots >= Len(prioritizedRemaining) THEN prioritizedRemaining
  ELSE SubSeq(prioritizedRemaining, 1, remainingSlots)

\* "Combine and restore chronological order": the messages whose content is
\* the content of a selected or of a recent message.
flowResult(messages, selected, recent) ==
  LET allSelectedMessages == selected \o recent
      selectedContents == Range(Contents(allSelectedMessages))
  IN SelectSeq(messages, LAMBDA m : m.content \in selectedContents)

\* prioritizeWithConversationFlow(messages, queryText, embeddingProvider,
\* maxMessages) up to the await of its prioritizeChatMessages call.
PrioritizeWithConversationFlow ==
  /\ pc = "idle"
  /\ \E messages \in ListsOver(Messages), query \in Prompts,
        provider \in BOOLEAN, maxMessages \in 0..MaxLen :
       LET recent == recentMessages(messages, maxMessages)
           remaining == remainingMessages(messages, maxMessages)
           remainingSlots == maxMessages - Len(recent)
       IN /\ op' = "prioritizeWithConversationFlow"
          /\ args' = [NoArgs EXCEPT !.items = messages, !.query = query,
                                    !.provider = provider,
                                    !.maxMessages = maxMessages]
          /\ IF Len(messages) <= maxMessages THEN ReturnList(messages, <<>>)
             ELSE IF remainingSlots <= 0 \/ remaining = <<>>
             THEN ReturnList(recent, <<>>)
             ELSE IF ~provider
             THEN Throw(PrioritizeProviderRequired) /\ requests' = <<>>
             ELSE Await("awaitPrioritize", <<>>,
                        <<query>> \o Contents(remaining),
                        [NoWork EXCEPT !.list = remaining, !.preserved = recent])
  /\ UNCHANGED <<emb, chained, rejected, providerCreated>>

\* The embeddings arrive: the remaining messages are ranked (hybrid), the top
\* ones selected and put back in order with the recent ones.
PrioritizeWithConversationFlowResolved ==
  /\ pc = "awaitPrioritize" /\ op = "prioritizeWithConversationFlow"
  /\ \E e \in Answers(Range(Contents(args.items)) \cup {args.query}) :
       /\ emb' = {e}
       /\ Return(flowResult(
                   args.items,
                   selectedMessages(
                     prioritizeChatWithEmbeddings(
                       work.list,
                       getEmbeddings(e, <<args.query>> \o Contents(work.list)),
                       "hybrid"),
                     args.maxMessages - Len(work.preserved)),
                   work.preserved))
  /\ UNCHANGED <<op, args, requests, chained, rejected, providerCreated>>

\* The request fails: prioritizeChatMessages throws and so does its caller.
PrioritizeWithConversationFlowRejected ==
  /\ pc = "awaitPrioritize" /\ op = "prioritizeWithConversationFlow"
  /\ Throw(ProviderError)
  /\ rejected' = TRUE
  /\ UNCHANGED <<op, args, emb, requests, chained, providerCreated>>

UtilityNext ==
  \/ DeduplicateRoleMessages
  \/ DeduplicateRoleMessagesResolved
  \/ DeduplicateRoleMessagesRejected
  \/ PrioritizeWithConversationFlow
  \/ PrioritizeWithConversationFlowResolved
  \/ PrioritizeWithConversationFlowRejected

UtilitySpec == Init /\ [][UtilityNext]_vars

\* ================================================================== claims

RECURSIVE IsSubsequence(_, _)
IsSubsequence(sub, full) ==
  IF sub = <<>> THEN TRUE
  ELSE IF full = <<>> THEN FALSE
  ELSE IF Head(sub) = Head(full) THEN IsSubsequence(Tail(sub), Tail(full))
  ELSE IsSubsequence(sub, Tail(full))

Occurrences(x, list) == Cardinality({i \in 1..Len(list) : list[i] = x})

IsPermutation(a, b) ==
  /\ Len(a) = Len(b)
  /\ \A i \in 1..Len(a) : Occurrences(a[i], a) = Occurrences(a[i], b)

Returned(name) == pc = "done" /\ op = name /\ outcome = "returned"

\* C1: whatever deduplicate or deduplicateMessages returns for a non-empty
\* list is a subsequence of that list in the list's own order (for messages:
\* the order of the whole input, not role by role), and is no longer than it.
C1_DedupeIsSubsequence ==
  (/\ Returned("deduplicate") \/ Returned("deduplicateMessages")
   /\ args.items # <<>>)
  => /\ IsSubsequence(result.items, args.items)
     /\ Len(result.items) <= Len(args.items)

\* C1 witness: deduplicateMessages dropped a message and returned a user
\* message before a system message, as in the input.
C1_Witness ==
  /\ Returned("deduplicateMessages")
  /\ Len(args.items) = 3 /\ Len(result.items) = 2
  /\ result.items[1].role = "user" /\ result.items[2].role = "system"

\* C2: whatever prioritize or prioritizeChatMessages returns is a permutation
\* of its input, under every strategy name and every embedding.
C2_PrioritizeIsPermutation ==
  (Returned("prioritize") \/ Returned("prioritizeChatMessages"))
  => IsPermutation(result.items, args.items)

\* C2 witness: prioritizeChatMessages reordered a list that holds the same
\* message twice, under a strategy name it does not know.
C2_Witness ==
  /\ Returned("prioritizeChatMessages")
  /\ args.strategy = "custom"
  /\ Len(args.items) = 3
  /\ result.items # args.items
  /\ \E i, j \in 1..3 : i < j /\ args.items[i] = args.items[j]

\* C6: in what deduplicateMessages returns, no two messages of one role have
\* embeddings whose cosine similarity reaches the threshold.
C6_NoSimilarPairRetained ==
  Returned("deduplicateMessages")
  => \A e \in emb :
       \A i, j \in 1..Len(result.items) :
         (i < j /\ result.items[i].role = result.items[j].role)
         => cosineSimilarity(e[Trim(result.items[i].content)],
                             e[Trim(result.items[j].content)]) < args.threshold

\* C7: with the same threshold and the same embedding function, deduplicate
\* (and deduplicateMessages) called on its own result returns that result.
C7_DedupeIdempotent ==
  (/\ Returned("deduplicate") \/ Returned("deduplicateMessages")
   /\ chained /\ ~rejected)
  => result.items = args.items

\* C7 witness: a second run that embedded and scanned at least two items.
C7_Witness ==
  /\ Returned("deduplicate")
  /\ chained /\ ~rejected
  /\ requests # <<>>
  /\ Len(result.items) >= 2

\* C3: when the trimming loop of optimizePrompt, or the one optimizeChatHistory
\* runs on its working messages, has finished, the token estimate of the kept
\* items is at most the available budget, or nothing is kept.
C3_TrimmedFitsOrEmpty ==
  (pc = "done" /\ work.trimmed)
  => \/ work.list = <<>>
     \/ (IF op = "optimizePrompt" THEN chunkCost(work.list)
         ELSE messageCost(work.list)) <= work.available

\* C3 witness: optimizePrompt, without deduplication or compression, trimmed
\* some chunks away and kept at least two.
C3_Witness ==
  /\ Returned("optimizePrompt")
  /\ work.trimmed /\ ~args.dedupe /\ ~args.compress
  /\ Len(work.list) >= 2
  /\ Len(work.list) < Len(args.items)

\* C4: a successful optimizePrompt call with a non-empty context and a
\* positive maxTokens returns a tokenCount of at most maxTokens.
C4_PromptTokenCountWithinMaxTokens ==
  (/\ Returned("optimizePrompt")
   /\ args.items # <<>> /\ args.maxTokens > 0)
  => result.tokenCount <= args.maxTokens

\* C5: a successful optimizeChatHistory call with a positive maxTokens returns
\* a tokenCount of at most maxTokens.
C5_ChatTokenCountWithinMaxTokens ==
  (Returned("optimizeChatHistory") /\ args.maxTokens > 0)
  => result.tokenCount <= args.maxTokens

\* C8: unless preserveSystemMessage is false, every system message of the
\* input is among the optimizedMessages of a successful optimizeChatHistory
\* call, as often as in the input, and none is among the removedMessages.
C8_SystemMessagesPreserved ==
  (Returned("optimizeChatHistory") /\ args.preserveSystemMessage)
  => \A i \in 1..Len(args.items) :
       args.items[i].role = "system"
       => /\ Occurrences(args.items[i], result.items)
               = Occurrences(args.items[i], args.items)
          /\ Occurrences(args.items[i], result.dropped) = 0

\* C8 witness: a call whose budget is smaller than the cost of its system
\* messages returned them, and removed another message.
C8_Witness ==
  /\ Returned("optimizeChatHistory") /\ args.preserveSystemMessage
  /\ roleMessages(args.items, "system") # <<>>
  /\ messageCost(roleMessages(args.items, "system")) > args.maxTokens
  /\ roleMessages(result.items, "system") = roleMessages(args.items, "system")
  /\ result.dropped # <<>>

\* C9: after a successful optimizeChatHistory call every occurrence of an
\* input message is either in optimizedMessages or in removedMessages, in
\* exactly one of them, so that the two lengths add up to the input's.
C9_EveryMessageAccountedOnce ==
  Returned("optimizeChatHistory")
  => /\ \A i \in 1..Len(args.items) :
          Occurrences(args.items[i], result.items)
            + Occurrences(args.items[i], result.dropped)
          = Occurrences(args.items[i], args.items)
     /\ Len(result.items) + Len(result.dropped) = Len(args.items)

\* C10: optimizePrompt with a non-empty query and no context returns the
\* query as finalPrompt, countTokens(query) as tokenCount and no dropped
\* chunks, with or without an API key, creates no embedding provider and
\* sends no embedding request.
C10_EmptyContextReturnsQuery ==
  (/\ pc = "done" /\ op = "optimizePrompt"
   /\ args.query # <<>> /\ args.items = <<>>)
  => /\ outcome = "returned"
     /\ result.text = args.query
     /\ result.tokenCount = countTokens(args.query)
     /\ result.dropped = <<>>
     /\ ~providerCreated
     /\ requests = <<>>

\* C10 witness: such a call with an API key has returned.
C10_Witness ==
  /\ Returned("optimizePrompt")
  /\ args.query # <<>> /\ args.items = <<>>
  /\ args.provider
  /\ result.text = TextA

\* C11: optimizeChatHistory called with no messages returns the zeroed result
\* (no optimizedMessages, tokenCount 0, no removedMessages) and does not fail,
\* whatever maxTokens and the API key are.
C11_EmptyConversationReturnsZero ==
  (op = "optimizeChatHistory" /\ args.items = <<>>)
  => /\ pc = "done" /\ outcome = "returned" /\ error = ""
     /\ result.items = <<>> /\ result.tokenCount = 0 /\ result.dropped = <<>>

\* C11 witness: such a call with maxTokens 0 and no API key has returned.
C11_Witness ==
  /\ Returned("optimizeChatHistory")
  /\ args.items = <<>> /\ args.maxTokens = 0 /\ ~args.provider

\* C12: optimizePrompt with an empty userPrompt throws 'User prompt is
\* required'; optimizePrompt with a prompt, a context and maxTokens <= 0, and
\* optimizeChatHistory with messages and maxTokens <= 0, throw 'maxTokens must
\* be positive'; each before a provider is created, with no embedding request
\* and no result.
C12_ValidationFailsFast ==
  LET failed(message) ==
        /\ pc = "done" /\ outcome = "threw" /\ error = message
        /\ result = NoResult /\ ~providerCreated /\ requests = <<>>
  IN /\ (op = "optimizePrompt" /\ args.query = <<>>) => failed(PromptRequired)
     /\ (/\ op = "optimizePrompt" /\ args.query # <<>>
         /\ args.items # <<>> /\ args.maxTokens <= 0) => failed(MaxTokensPositive)
     /\ (/\ op = "optimizeChatHistory"
         /\ args.items # <<>> /\ args.maxTokens <= 0) => failed(MaxTokensPositive)

\* C12 witness: optimizePrompt was called with an API key, a prompt, a context
\* and maxTokens 0, and threw.
C12_Witness ==
  /\ pc = "done" /\ op = "optimizePrompt" /\ outcome = "threw"
  /\ args.provider /\ args.query # <<>> /\ args.items # <<>> /\ args.maxTokens = 0
  /\ error = MaxTokensPositive

C14_ChunkStagesRequireProvider ==
  (/\ pc = "done" /\ op \in {"deduplicate", "prioritize"}
   /\ args.items # <<>> /\ ~args.provider)
  => /\ outcome = "threw"
     /\ error \in {DedupeProviderRequired, PrioritizeProviderRequired}

\* C15: when an embedding request fails during deduplication or during
\* prioritization, the optimizePrompt or optimizeChatHistory call throws; it
\* never returns a result.
C15_ProviderErrorPropagates ==
  (/\ pc = "done" /\ op \in {"optimizePrompt", "optimizeChatHistory"}
   /\ rejected)
  => outcome = "threw"

\* C17: optimizePrompt called with a prompt, maxTokens <= 0 and no context
\* throws 'maxTokens must be positive' instead of returning a result.
C17_BudgetCheckedBeforeEmptyContext ==
  (/\ pc = "done" /\ op = "optimizePrompt"
   /\ args.query # <<>> /\ args.maxTokens <= 0 /\ args.items = <<>>)
  => outcome = "threw" /\ error = MaxTokensPositive

\* C18: deduplicateMessages and prioritizeChatMessages called without a
\* provider return [] for an empty list and throw 'Embedding provider is
\* required' for every non-empty list, a single message included.
C18_ChatStagesCheckOrder ==
  (/\ op \in {"deduplicateMessages", "prioritizeChatMessages"}
   /\ ~args.provider)
  => /\ pc = "done" /\ requests = <<>>
     /\ IF args.items = <<>>
        THEN outcome = "returned" /\ result.items = <<>>
        ELSE /\ outcome = "threw"
             /\ error = (IF op = "deduplicateMessages" THEN DedupeProviderRequired
                         ELSE PrioritizeProviderRequired)

\* C18 witness: deduplicateMessages threw on a single message without a
\* provider.
C18_Witness ==
  /\ pc = "done" /\ op = "deduplicateMessages" /\ outcome = "threw"
  /\ Len(args.items) = 1 /\ ~args.provider

\* The items of a list at the indices of K, in order.
ItemsAt(items, K) ==
  LET indices == SelectSeq([i \in 1..Len(items) |-> i], LAMBDA i : i \in K)
  IN [k \in 1..Len(indices) |-> items[indices[k]]]

\* C19: with a provider whose request succeeded, deduplicate keeps exactly
\* the chunks of the greedy scan over the input: chunk i is dropped if and
\* only if an earlier kept chunk has cosine similarity >= threshold with it
\* (so the first chunk is kept, and of two similar chunks the later goes).
C19_GreedyFirstOccurrenceWins ==
  (Returned("deduplicate") /\ args.provider /\ ~rejected)
  => \A e \in emb :
       \E K \in SUBSET (1..Len(args.items)) :
         /\ \A i \in 1..Len(args.items) :
              i \in K <=>
                ~ \E j \in K :
                    /\ j < i
                    /\ cosineSimilarity(e[Trim(args.items[j])],
                                        e[Trim(args.items[i])]) >= args.threshold
         /\ result.items = ItemsAt(args.items, K)

\* C20: deduplicateMessages retains every message that is the only one of
\* its role in the input, whatever the text and the embeddings of the
\* messages of other roles.
C20_NoCrossRoleRemoval ==
  Returned("deduplicateMessages")
  => \A i \in 1..Len(args.items) :
       Len(roleMessages(args.items, args.items[i].role)) = 1
       => Occurrences(args.items[i], result.items) = 1

\* C20 witness: the only system message was retained next to two user
\* messages, one with the same text, whose scan dropped a message.
C20_Witness ==
  /\ Returned("deduplicateMessages")
  /\ Len(args.items) = 3 /\ emb # {}
  /\ args.items[1].role = "system" /\ args.items[1].content = TextA
  /\ args.items[2].role = "user" /\ args.items[2].content = TextA
  /\ args.items[3].role = "user"
  /\ Len(result.items) = 2 /\ result.items[1] = args.items[1]

\* Did the stage that has finished compare two vectors of different lengths
\* under the embedding function e?
comparedUnequalLengths(e) ==
  CASE op = "deduplicate" ->
         scanThrows(getEmbeddings(e, textDedupedChunks(args.items, {})),
                    args.threshold, 1, <<>>)
    [] op = "deduplicateMessages" ->
         \E k \in 1..Len(RoleOrder) :
           scanThrows(getEmbeddings(e, Contents(roleMessages(args.items, RoleOrder[k]))),
                      args.threshold, 1, <<>>)
    [] op = "prioritize" ->
         relevanceThrows(getEmbeddings(e, <<args.query>> \o args.items), args.strategy)
    [] OTHER ->
         relevanceThrows(getEmbeddings(e, <<args.query>> \o Contents(args.items)),
                         args.strategy)

\* C16: cosineSimilarity throws exactly when its vectors differ in length and
\* returns 0 for vectors of one length of which one has norm zero; a stage
\* that compared vectors of different lengths throws that error.
C16_LengthMismatchPropagates ==
  \A e \in emb :
    /\ \A x, y \in DOMAIN e :
         /\ cosineSimilarity(e[x], e[y]) = SimError <=> Len(e[x]) # Len(e[y])
         /\ (Len(e[x]) = Len(e[y]) /\ (Dot(e[x], e[x]) = 0 \/ Dot(e[y], e[y]) = 0))
            => cosineSimilarity(e[x], e[y]) = 0
    /\ (pc = "done" /\ comparedUnequalLengths(e))
       => outcome = "threw" /\ error = VectorsLengthError

\* C21: deduplicateUserMessages (resp. deduplicateAssistantMessages) returns
\* every message of the other roles, unchanged and in input order, so that
\* only messages of its own role can be missing; with at most one message of
\* its role it returns the input unchanged and sends no embedding request.
C21_OtherRolesPassThrough ==
  (pc = "done" /\ op \in RoleDedupers)
  => /\ outcome = "returned"
        => /\ otherMessages(result.items, targetRole(op))
                = otherMessages(args.items, targetRole(op))
           /\ IsSubsequence(result.items, args.items)
     /\ Len(roleMessages(args.items, targetRole(op))) <= 1
        => /\ outcome = "returned"
           /\ result.items = args.items
           /\ requests = <<>>

\* C21 witness: deduplicateUserMessages dropped a user message from a list
\* that holds a message of another role, which it returned.
C21_Witness ==
  /\ Returned("deduplicateUserMessages")
  /\ Len(args.items) = 3 /\ Len(result.items) = 2
  /\ requests # <<>>
  /\ otherMessages(args.items, "user") # <<>>
  /\ otherMessages(result.items, "user") = otherMessages(args.items, "user")

\* C27: prioritizeWithConversationFlow returns its input unchanged when it
\* has at most maxMessages messages, and at most maxMessages messages
\* otherwise, for every maxMessages >= 0.
C27_FlowKeepsAtMostMaxMessages ==
  Returned("prioritizeWithConversationFlow")
  => IF Len(args.items) <= args.maxMessages THEN result.items = args.items
     ELSE Len(result.items) <= args.maxMessages

\* The first n items of a list.
Prefix(list, n) == SubSeq(list, 1, n)

\* The token estimate of a list as the pipeline in progress serializes it.
listCost(list) == IF op = "optimizePrompt" THEN chunkCost(list) ELSE messageCost(list)

\* C22: the trimming of optimizePrompt and of optimizeChatHistory keeps a
\* prefix of the prioritized list it was given: the whole list when it fits
\* the available budget, and otherwise the longest prefix whose serialization
\* fits (no longer prefix fits, so nothing is removed once the rest fits).
C22_TrimKeepsLongestFittingPrefix ==
  (pc = "done" /\ work.trimmed)
  => /\ Len(work.list) <= Len(work.prioritized)
     /\ work.list = Prefix(work.prioritized, Len(work.list))
     /\ listCost(work.prioritized) <= work.available => work.list = work.prioritized
     /\ listCost(work.list) <= work.available
     /\ \A n \in (Len(work.list) + 1)..Len(work.prioritized) :
          listCost(Prefix(work.prioritized, n)) > work.available

\* C22 witness: optimizeChatHistory ranked three working messages in another
\* order than the input's and its trimming removed the last-ranked one only.
C22_Witness ==
  /\ Returned("optimizeChatHistory") /\ work.trimmed
  /\ Len(work.prioritized) = 3 /\ Len(work.list) = 2
  /\ ~IsSubsequence(work.prioritized, args.items)
  /\ work.list = Prefix(work.prioritized, 2)

\* C23 as stated: when the available budget equals the token estimate of the
\* prioritized chunks the trimming of optimizePrompt keeps all of them, and
\* when it is one token less it removes exactly the last-ranked chunk.
C23_OneTokenLessDropsExactlyLast ==
  (Returned("optimizePrompt") /\ work.trimmed /\ work.prioritized # <<>>)
  => /\ work.available = chunkCost(work.prioritized)
        => work.list = work.prioritized
     /\ work.available = chunkCost(work.prioritized) - 1
        => work.list = Prefix(work.prioritized, Len(work.prioritized) - 1)

\* C23 amended: with a budget equal to the estimate all chunks are kept; with
\* a budget one token less the last-ranked chunk is removed, and it is the
\* only one removed exactly when the estimate of the chunks without it is
\* lower than the estimate of all of them.
C23_OneTokenLessDropsLast ==
  (Returned("optimizePrompt") /\ work.trimmed /\ work.prioritized # <<>>)
  => /\ work.available = chunkCost(work.prioritized)
        => work.list = work.prioritized
     /\ work.available = chunkCost(work.prioritized) - 1
        => LET butLast == Prefix(work.prioritized, Len(work.prioritized) - 1)
           IN /\ Len(work.list) < Len(work.prioritized)
              /\ work.list = butLast
                 <=> chunkCost(butLast) < chunkCost(work.prioritized)

\* C23 witness: a budget one token short of three chunks removed the last
\* chunk only.
C23_Witness ==
  /\ Returned("optimizePrompt") /\ work.trimmed
  /\ Len(work.prioritized) = 3
  /\ work.available = chunkCost(work.prioritized) - 1
  /\ work.list = Prefix(work.prioritized, 2)

\* C24: the optimizedMessages of a successful optimizeChatHistory call are a
\* subsequence of the input messages, in the input's order, whatever
\* preserveSystemMessage, preserveLastNMessages and the strategy are.
C24_OptimizedIsSubsequence ==
  Returned("optimizeChatHistory") => IsSubsequence(result.items, args.items)

\* Step 2 of optimizeChatHistory found no room beside the preserved messages.
preservedFillBudget ==
  messageCost(preservedMessages(args.items, args.preserveSystemMessage,
                                args.preserveLastNMessages)) + chatBuffer
    >= args.maxTokens

\* C25: when the token estimate of the preserved messages plus the 50-token
\* buffer reaches maxTokens, optimizeChatHistory (messages, positive budget,
\* API key) returns exactly the preserved messages as optimizedMessages, the
\* working messages as removedMessages and the preserved messages' estimate
\* as tokenCount, and sends no embedding request.
C25_PreservedOnlyWhenNoRoom ==
  (/\ op = "optimizeChatHistory"
   /\ args.items # <<>> /\ args.maxTokens > 0 /\ args.provider
   /\ preservedFillBudget)
  => /\ pc = "done" /\ outcome = "returned"
     /\ result.items = preservedMessages(args.items, args.preserveSystemMessage,
                                         args.preserveLastNMessages)
     /\ result.dropped = workingMessages(args.items, args.preserveSystemMessage,
                                         args.preserveLastNMessages)
     /\ result.tokenCount = messageCost(result.items)
     /\ requests = <<>> /\ emb = {}

\* C25 witness: a system message and the last message exactly fill a budget
\* of 58 tokens with the buffer; the one working message is reported removed.
C25_Witness ==
  /\ Returned("optimizeChatHistory")
  /\ args.maxTokens > chatBuffer /\ preservedFillBudget
  /\ Len(result.items) = 2 /\ result.items[1].role = "system"
  /\ Len(result.dropped) = 1
  /\ result.tokenCount + chatBuffer = args.maxTokens

\* C26: under the relevance strategy, with the embeddings the provider
\* returned, prioritize and prioritizeChatMessages return the items in
\* non-increasing order of cosine similarity between item and query, items
\* of equal similarity in input order; an item whose similarity is strictly
\* the lowest comes last.
C26_RelevanceOrderIsStableDescending ==
  (/\ Returned("prioritize") \/ Returned("prioritizeChatMessages")
   /\ args.strategy = "relevance" /\ ~rejected)
  => \A e \in emb :
       LET n == Len(args.items)
           text(i) == IF op = "prioritize" THEN args.items[i]
                      ELSE args.items[i].content
           sim(i) == cosineSimilarity(e[Trim(args.query)], e[Trim(text(i))])
       IN /\ \E p \in [1..n -> 1..n] :
               /\ \A i, j \in 1..n : i # j => p[i] # p[j]
               /\ \A k \in 1..n : result.items[k] = args.items[p[k]]
               /\ \A k \in 1..(n - 1) :
                    \/ sim(p[k]) > sim(p[k + 1])
                    \/ sim(p[k]) = sim(p[k + 1]) /\ p[k] < p[k + 1]
          /\ \A i \in 1..n :
               (\A j \in 1..n : j # i => sim(i) < sim(j))
               => result.items[n] = args.items[i]

\* C26 witness: prioritizeChatMessages moved the second of three messages
\* to the front and left the first and the third, two different messages
\* with one content (equal similarity), in input order.
C26_Witness ==
  /\ Returned("prioritizeChatMessages")
  /\ args.strategy = "relevance" /\ ~rejected /\ emb # {}
  /\ Len(args.items) = 3
  /\ args.items[1].content = args.items[3].content
  /\ args.items[1] # args.items[3]
  /\ result.items = <<args.items[2], args.items[1], args.items[3]>>

\* The texts of the items of the pipeline in progress, and its query.
textsOf(list) == IF op = "optimizePrompt" THEN list ELSE Contents(list)
pipelineQuery == IF op = "optimizePrompt" THEN args.query ELSE queryText(args.items)

\* The requests the deduplication stage of the call in progress sends: for
\* optimizePrompt one with the text-distinct chunks when there are two or
\* more, for optimizeChatHistory one per role that has two or more working
\* messages, in the order system, user, assistant.
dedupeStageRequests ==
  IF ~args.dedupe THEN <<>>
  ELSE IF op = "optimizePrompt"
  THEN LET textDeduped == textDedupedChunks(args.items, {})
       IN IF Len(textDeduped) > 1 THEN <<EmbeddingInput(textDeduped)>> ELSE <<>>
  ELSE LET working == workingMessages(args.items, args.preserveSystemMessage,
                                      args.preserveLastNMessages)
           roles == SelectSeq(RoleOrder, LAMBDA r : Len(roleMessages(working, r)) > 1)
       IN [k \in 1..Len(roles) |->
             EmbeddingInput(Contents(roleMessages(working, roles[k])))]

\* The requests of the call in progress are those of the deduplication stage,
\* one after the other, then one of the prioritization stage that carries the
\* query and the items to rank in order (none without items); nothing is
\* requested by or after the trimming, or when no stage runs.
requestsInStageOrder ==
  /\ pc = "awaitDedupe"
     => /\ requests # <<>>
        /\ Len(requests) <= Len(dedupeStageRequests)
        /\ requests = Prefix(dedupeStageRequests, Len(requests))
  /\ pc = "awaitPrioritize"
     => /\ work.list # <<>>
        /\ requests = dedupeStageRequests
                        \o <<EmbeddingInput(<<pipelineQuery>> \o textsOf(work.list))>>
  /\ (pc = "done" /\ work.trimmed)
     => IF work.prioritized = <<>> THEN requests = dedupeStageRequests
        ELSE /\ Len(requests) = Len(dedupeStageRequests) + 1
             /\ Prefix(requests, Len(dedupeStageRequests)) = dedupeStageRequests
             /\ Head(requests[Len(requests)]) = Trim(pipelineQuery)
             /\ IsPermutation(Tail(requests[Len(requests)]),
                              EmbeddingInput(textsOf(work.prioritized)))
  /\ (pc = "done" /\ outcome = "returned" /\ ~work.trimmed) => requests = <<>>

\* C28 as stated: in one optimizePrompt or optimizeChatHistory call the
\* requests go out one per stage, in stage order, and the deduplication stage
\* sends at most one.
C28_OneRequestPerStage ==
  (op \in {"optimizePrompt", "optimizeChatHistory"})
  => /\ requestsInStageOrder
     /\ pc = "awaitDedupe" => Len(requests) = 1
     /\ pc \in {"awaitPrioritize", "done"} => Len(requests) <= 2

\* C28 amended: the requests go out one after the other in stage order; the
\* deduplication stage of optimizePrompt sends at most one, that of
\* optimizeChatHistory one per role with two or more working messages (at
\* most three); the prioritization stage then sends exactly one.
C28_RequestsInStageOrder ==
  (op \in {"optimizePrompt", "optimizeChatHistory"})
  => /\ requestsInStageOrder
     /\ Len(dedupeStageRequests) <= (IF op = "optimizePrompt" THEN 1 ELSE Len(RoleOrder))

\* C28 witness: optimizeChatHistory sent one deduplication request for its
\* user messages, one for its assistant messages, then one to prioritize,
\* and trimmed.
C28_Witness ==
  /\ Returned("optimizeChatHistory") /\ work.trimmed
  /\ Len(requests) = 3
  /\ Len(dedupeStageRequests) = 2
  /\ Len(requests[3]) = 1 + Len(work.prioritized)

\* C29: after a successful optimizePrompt call every occurrence of an input
\* chunk is either in the final prompt or in droppedChunks, so the number of
\* chunks kept plus droppedChunks.length is context.length (and
\* originalChunks - droppedChunks.length is the number of chunks kept), also
\* when chunks have identical text.
C29_DroppedCountsEveryMissingChunk ==
  Returned("optimizePrompt")
  => /\ Len(result.items) + Len(result.dropped) = Len(args.items)
     /\ \A i \in 1..Len(args.items) :
          Occurrences(args.items[i], result.items)
            + Occurrences(args.items[i], result.dropped)
          = Occurrences(args.items[i], args.items)

\* C30: with compress = true optimizePrompt returns the finalPrompt,
\* tokenCount and droppedChunks it returns with compress = false for the
\* same prioritized chunks and budget, that is, those of the trimming loop
\* alone.
C30_CompressChangesNothing ==
  (Returned("optimizePrompt") /\ work.trimmed /\ args.compress)
  => LET chunks == trimChunks(work.prioritized, work.available)
         contextText == Join(chunks, <<NL>>)
         finalPrompt == IF contextText # <<>>
                        THEN args.query \o <<NL, NL>> \o contextText
                        ELSE args.query
     IN /\ result.items = chunks
        /\ result.text = finalPrompt
        /\ result.tokenCount = countTokens(finalPrompt)
        /\ result.dropped = NotIn(args.items, Range(chunks))

\* C30 witness: with compress = true, three prioritized chunks were over the
\* budget, compress popped one and two are in the final prompt.
C30_Witness ==
  /\ Returned("optimizePrompt") /\ work.trimmed /\ args.compress
  /\ Len(work.prioritized) = 3
  /\ chunkCost(work.prioritized) > work.available
  /\ Len(result.items) = 2
  /\ compress(work.prioritized, work.available) = result.items

====
